---- MODULE Spec2Model ----
(***************************************************************************)
(* State-machine model of src/suika-physics.js (the Suika-Lite merge game) *)
(*                                                                         *)
(* Lengths are in pixels (integers).  Velocities are in hundredths of a    *)
(* pixel per step, so the code's 2.8 is 280, 0.12 is 12 and 0.1 is 10.     *)
(* The clock is millis() in milliseconds.  The Matter.js engine and the    *)
(* browser are the environment: what they decide (where bodies move, when  *)
(* a timer fires, what the user clicks) is a nondeterministic choice.      *)
(***************************************************************************)
EXTENDS Integers, Sequences, FiniteSets, TLC

\* ------------------------------------------------------------------------
\* CONFIG (src/suika-physics.js:18-32, 63)
\* ------------------------------------------------------------------------
MAX_LEVEL == 9
SPAWN_MAX_LEVEL == 4
MERGE_MIN_DIST == 1
SPAWN_DEBOUNCE == 200
SPAWN_GRACE_MS == 900
CLEAR_UNLOCK_SCORE == 500
CLEAR_RECHARGE_POINTS == 300
CHAIN_TIMEOUT == 900

\* literals of the code, in the model's units
MergeMaxRelVel == 280
SettleSpeed == 12
\* a variant that waits for one more
SupernovaCountPlusOne == 5 + 1
SupernovaCount == 5
FallOffMargin == 900

\* ------------------------------------------------------------------------
\* Bounds of the model
\* ------------------------------------------------------------------------
\* fruit the player may have on the board when dropping one more
MaxBodies == 2
\* bodies created (dropped or merged) in one run of the model
MaxCreated == 3
\* millis() when the model starts looking, and when it stops
StartTime == 1350
MaxTime == 2250

\* elapsed time between two frames the model looks at
Steps == {450}

\* the window size at load (window.innerWidth, window.innerHeight)
Viewports == {[innerWidth |-> 1000, innerHeight |-> 1000]}

\* the window sizes a resize leads to: the size at load, a phone-sized one
\* (below 760 px, the mobile branch of computeBoardRect) and a large one
ResizeTo == Viewports \cup {[innerWidth |-> 500, innerHeight |-> 500],
                            [innerWidth |-> 2000, innerHeight |-> 2000]}

\* body ids Matter.js gave the three static bounds (createBounds in setup)
GroundId == 1
LeftWallId == 2
RightWallId == 3
Statics == {GroundId, LeftWallId, RightWallId}

VARIABLES
  window,               \* window.innerWidth / innerHeight
  now,                  \* millis()
  nextId,               \* the id Matter.js gives the next body it creates
  bodies,               \* the live-body list, in creation order
  world,                \* ids of the bodies in the physics world
  contacts,             \* pairs the engine found colliding at its last update
  timers,               \* pending setTimeout callbacks of scheduleMergeCheck
  isRunning, gameOver,
  score, high,
  stored,               \* localStorage slot 'suika_physics_high' ("" = absent)
  mergedThisStep,
  nextPick,
  lastSpawnAt, lastSpawnTime,
  clearUnlocked, clearAvailable, pointsAccumSinceClear, clearUsed,
  chainCount, chainTimer, lastMergeTime,
  created,              \* history: bodies created since the initial state
  consumed,             \* history: ids of the bodies merges have used up
  mergeChain,           \* history: the chain count of the last merge (0: none)
  pointsSinceUse,       \* history: points merges awarded since the last clear-small
  uses,                 \* history: clear-smalls that took effect
  fires,                \* history: round-ending triggers called since startGame
  previousBoardRect,    \* the board rectangle stored at setup / the last resize
  last                  \* history: the operation that ran last and what it did

vars == <<window, now, nextId, bodies, world, contacts, timers, isRunning, gameOver,
          score, high, stored, mergedThisStep, nextPick, lastSpawnAt, lastSpawnTime,
          clearUnlocked, clearAvailable, pointsAccumSinceClear, clearUsed,
          chainCount, chainTimer, lastMergeTime, created, consumed, mergeChain,
          pointsSinceUse, uses, fires, previousBoardRect, last>>

\* ------------------------------------------------------------------------
\* Utilities
\* ------------------------------------------------------------------------
Min(a, b) == IF a <= b THEN a ELSE b
Max(a, b) == IF a >= b THEN a ELSE b
Sq(a) == a * a

RECURSIVE Pow(_, _)
Pow(b, e) == IF e = 0 THEN 1 ELSE b * Pow(b, e - 1)

\* computeBoardRect(): boardW = min(innerWidth * (isMobile ? 0.94 : 0.78),
\* innerHeight * 0.78), centred in the window
computeBoardRect ==
  LET isMobile == window.innerWidth < 760
      wPart == (window.innerWidth * (IF isMobile THEN 94 ELSE 78)) \div 100
      hPart == (window.innerHeight * 78) \div 100
      w == Min(wPart, hPart)
  IN [boardW |-> w,
      boardX |-> (window.innerWidth - w) \div 2,
      boardY |-> (window.innerHeight - w) \div 2]

boardW == computeBoardRect.boardW
boardX == computeBoardRect.boardX
boardY == computeBoardRect.boardY
width == window.innerWidth
height == window.innerHeight

\* radiusForLevel(l): round(max(4, min(boardW * 0.02 * 1.4^(lvl-1), boardW * 0.26)))
\* with 0.02 * 1.4^(lvl-1) = 7^(lvl-1) / (50 * 5^(lvl-1)) and 0.26 = 13/50; the
\* min is decided on the two fractions of boardW, which keeps the products small
radiusForLevel(l) ==
  LET lvl == Max(1, Min(l, MAX_LEVEL))
      capped == Pow(7, lvl - 1) > 13 * Pow(5, lvl - 1)
      den == IF capped THEN 50 ELSE 50 * Pow(5, lvl - 1)
      clamped == IF capped THEN boardW * 13 ELSE boardW * Pow(7, lvl - 1)
      atLeast == Max(4 * den, clamped)
  IN (atLeast + den \div 2) \div den


\* ------------------------------------------------------------------------
\* Scoring helper
\* ------------------------------------------------------------------------
\* scoreForMerge(level, chainCount) with SCORE_PRESET 'classic': base 8,
\* chainPower 0.12; the multiplier is kept in hundredths
\* a variant with the base of the 'tight' preset
\* a variant that awards nothing
scoreForMergeNothing(level, chain) == 0

scoreForMergeTight(level, chain) ==
  LET levelPts == 6 * Pow(2, Max(0, level - 1))
      chainMultiplier == 100 + Min(60, 12 * Max(0, chain - 1))
      pts == (levelPts * chainMultiplier + 50) \div 100
  IN Max(1, Min(999999, pts))

scoreForMerge(level, chain) ==
  LET levelPts == 8 * Pow(2, Max(0, level - 1))
      chainMultiplier == 100 + Min(60, 12 * Max(0, chain - 1))
      pts == (levelPts * chainMultiplier + 50) \div 100
  IN Max(1, Min(999999, pts))

\* ------------------------------------------------------------------------
\* High-score slot: a decimal string, kept as a sequence of characters
\* ------------------------------------------------------------------------
DigitChars == <<"0", "1", "2", "3", "4", "5", "6", "7", "8", "9">>
DigitOf(c) == CHOOSE d \in 0..9 : DigitChars[d + 1] = c
IsDigit(c) == \E d \in 0..9 : DigitChars[d + 1] = c

RECURSIVE String(_)
\* String(n) for an integer n >= 0
String(n) ==
  IF n < 10 THEN <<DigitChars[n + 1]>>
  ELSE Append(String(n \div 10), DigitChars[(n % 10) + 1])

RECURSIVE DigitsValue(_, _)
DigitsValue(str, acc) ==
  IF str = <<>> \/ ~IsDigit(Head(str)) THEN acc
  ELSE DigitsValue(Tail(str), 10 * acc + DigitOf(Head(str)))

\* setup: high = saved ? parseInt(saved) : 0; parseInt reads the leading
\* digits (a slot that starts with no digit would give NaN; the slots of the
\* model start with a digit or are absent)
LoadHigh(saved) == IF saved = <<>> THEN 0 ELSE DigitsValue(saved, 0)

\* the slot's contents at load
StoredAtLoad == {<<"2", "4">>}

\* ------------------------------------------------------------------------
\* Bodies
\* ------------------------------------------------------------------------
\* a fruit body: Matter id, _fruit.level, _fruit.radius, position, velocity,
\* _spawnTime
Body(id, level, radius, x, y, vx, vy, t) ==
  [id |-> id, level |-> level, radius |-> radius, x |-> x, y |-> y,
   vx |-> vx, vy |-> vy, spawnTime |-> t]

Ids(bs) == {bs[i].id : i \in 1..Len(bs)}
Has(bs, id) == \E i \in 1..Len(bs) : bs[i].id = id
\* the value of a lookup that finds nothing
undefined == [id |-> 0]
\* bodies.find(b => b.id === id)
Find(bs, id) == IF Has(bs, id) THEN bs[CHOOSE i \in 1..Len(bs) : bs[i].id = id]
                ELSE undefined

topLineY == boardY + 8

\* p5 constrain(v, lo, hi)
constrain(v, lo, hi) == Max(Min(v, hi), lo)

\* the variant that lifts a body under the top line and leaves its x alone
clampTopOnly(b) ==
  LET topOfFruit == b.y - b.radius
  IN IF topOfFruit < topLineY + 2
     THEN [b EXCEPT !.y = topLineY + 2 + b.radius,
                    !.vx = (b.vx * 3) \div 10, !.vy = Max(10, b.vy \div 5)]
     ELSE b

\* clampBodyInsideBoard(b)
clampBodyInsideBoard(b) ==
  LET leftBound == boardX + 16 + b.radius
      rightBound == boardX + boardW - 16 - b.radius
      x1 == IF b.x < leftBound THEN leftBound ELSE b.x
      x2 == IF x1 > rightBound THEN rightBound ELSE x1
      topOfFruit == b.y - b.radius
  IN IF topOfFruit < topLineY + 2
     THEN [b EXCEPT !.x = x2, !.y = topLineY + 2 + b.radius,
                    !.vx = (b.vx * 3) \div 10, !.vy = Max(10, b.vy \div 5)]
     ELSE [b EXCEPT !.x = x2]

\* the velocities Math.random gives a new body, as one representative each:
\* spawnFruit sets y in [0.28, 0.5), createFruitAt sets y in [-0.15, 0.07)
SpawnVy == 30
MergeVy == 0

\* createFruitAt(level, x, y): the body it adds, after its clamp
createFruitAt(level, x, y) ==
  clampBodyInsideBoard(Body(nextId, level, radiusForLevel(level), x, y, 0, MergeVy, now))

\* SPAWN_WEIGHTS, in hundredths
SPAWN_WEIGHTS == <<40, 32, 18, 10>>

RECURSIVE SumTo(_, _)
SumTo(w, n) == IF n = 0 THEN 0 ELSE SumTo(w, n - 1) + w[n]

\* the variant that returns i + 2 for the slot i it picked
weightedPickOffByOne(r) ==
  LET weights == SubSeq(SPAWN_WEIGHTS, 1, SPAWN_MAX_LEVEL)
      hit == {i \in 1..Len(weights) : r < SumTo(weights, i)}
  IN IF hit # {} THEN (CHOOSE i \in hit : \A j \in hit : i <= j) + 1
     ELSE Len(weights)

\* weightedPick() for the draw r = Math.random() * total, in hundredths: the
\* first slot whose cumulative weight exceeds r (slots count from 1 here, so
\* the code's `i+1` is the slot itself), weights.length if none does
weightedPick(r) ==
  LET weights == SubSeq(SPAWN_WEIGHTS, 1, SPAWN_MAX_LEVEL)
      hit == {i \in 1..Len(weights) : r < SumTo(weights, i)}
  IN IF hit # {} THEN CHOOSE i \in hit : \A j \in hit : i <= j
     ELSE Len(weights)

\* the draws of Math.random() * total the model tries, and the picks they give
Randoms == {0, 40}
Picks == {weightedPick(r) : r \in Randoms}

\* the body spawnFruit(screenX) adds (its isRunning guard is at the callers)
SpawnedBody(screenX) ==
  LET pad == 18
      spawnX == constrain(screenX, boardX + pad, boardX + boardW - pad)
      \* nextPick || weightedPick(): nextPick is never null after setup
      spawnLevel == Min(nextPick, SPAWN_MAX_LEVEL)
      r == radiusForLevel(spawnLevel)
      spawnY == boardY + r + 6
  IN clampBodyInsideBoard(Body(nextId, spawnLevel, r, spawnX, spawnY, 0, SpawnVy, now))


\* ------------------------------------------------------------------------
\* Initial state: after setup()
\* ------------------------------------------------------------------------
Op(name, args) == [op |-> name, args |-> args]

Init ==
  /\ window \in Viewports
  /\ now = StartTime
  /\ nextId = 4
  /\ bodies = <<>>
  /\ world = Statics
  /\ contacts = {}
  /\ timers = {}
  /\ isRunning = FALSE /\ gameOver = FALSE
  /\ score = 0
  /\ stored \in StoredAtLoad
  /\ high = LoadHigh(stored)
  /\ mergedThisStep = {}
  /\ nextPick = 1
  /\ lastSpawnAt = 0 /\ lastSpawnTime = 0
  /\ clearUnlocked = FALSE /\ clearAvailable = FALSE
  /\ pointsAccumSinceClear = 0 /\ clearUsed = FALSE
  /\ chainCount = 0 /\ chainTimer = 0 /\ lastMergeTime = 0
  /\ created = 0
  /\ consumed = {}
  /\ mergeChain = 0
  /\ pointsSinceUse = 0 /\ uses = 0
  /\ fires = 0
  /\ previousBoardRect = computeBoardRect
  /\ last = Op("setup", <<>>)

\* the model creates at most MaxCreated fruit bodies, and the player drops a
\* fruit only on a board of fewer than MaxBodies
CanMerge == created < MaxCreated
CanCreate == Len(bodies) < MaxBodies /\ created < MaxCreated

\* ------------------------------------------------------------------------
\* Spawning
\* ------------------------------------------------------------------------
\* spawnFruit(screenX) past its guard: consume nextPick, refill it with
\* `pick` (generateNextPick), add the body to the world and to the list
spawnFruit(screenX, pick, name) ==
  /\ CanCreate
  /\ lastSpawnTime' = now
  /\ bodies' = Append(bodies, SpawnedBody(screenX))
  /\ world' = world \cup {nextId}
  /\ nextId' = nextId + 1
  /\ created' = created + 1
  /\ nextPick' = pick
  /\ UNCHANGED <<consumed, mergeChain, pointsSinceUse, uses>>
  /\ last' = Op(name, <<nextId>>)
  /\ UNCHANGED <<window, previousBoardRect, now, contacts, timers, isRunning, gameOver, fires, score, high,
                 stored, mergedThisStep, clearUnlocked, clearAvailable,
                 pointsAccumSinceClear, clearUsed, chainCount, chainTimer,
                 lastMergeTime>>

\* the debounce test of attemptSpawnAtScreenX
Debounced == now - lastSpawnAt < SPAWN_DEBOUNCE

\* its test of the position against the board, 4 px inside each edge
OffBoard(screenX) == screenX < boardX + 4 \/ screenX > boardX + boardW - 4

\* attemptSpawnAtScreenX(screenX)
attemptSpawnAtScreenX(screenX, pick, name) ==
  IF Debounced THEN UNCHANGED vars
  ELSE /\ lastSpawnAt' = now
       /\ IF OffBoard(screenX) \/ ~isRunning \/ gameOver
          THEN UNCHANGED <<window, previousBoardRect, now, nextId, created, consumed, mergeChain, pointsSinceUse, uses, bodies, world, contacts, timers,
                           isRunning, gameOver, fires, score, high, stored, mergedThisStep,
                           nextPick, lastSpawnTime, clearUnlocked, clearAvailable,
                           pointsAccumSinceClear, clearUsed, chainCount, chainTimer,
                           lastMergeTime, last>>
          ELSE spawnFruit(constrain(screenX, boardX + 16, boardX + boardW - 16),
                          pick, name)

\* clientToCanvasX(clientX): the canvas fills the window at pixelDensity(1)
clientToCanvasX(clientX) ==
  LET rectLeft == 0
      rectWidth == window.innerWidth
      canvasWidth == width
  IN ((clientX - rectLeft) * canvasWidth) \div rectWidth

\* pointer positions the model tries: left of the board, inside the board but
\* within 4 px of its edge, and inside
PointerXs == {100, 112, 500}

\* mousePressed() with the pointer at mouseX and no touch active
mousePressedAt(mouseX, pick) ==
  IF ~isRunning \/ gameOver THEN UNCHANGED vars
  ELSE IF mouseX < boardX \/ mouseX > boardX + boardW THEN UNCHANGED vars
  ELSE attemptSpawnAtScreenX(mouseX, pick, "mousePressed")

mousePressed == \E mouseX \in PointerXs, pick \in Picks : mousePressedAt(mouseX, pick)

\* touchStarted() with the first touch at tx
touchStartedAt(tx, pick) ==
  IF ~isRunning \/ gameOver THEN UNCHANGED vars
  ELSE attemptSpawnAtScreenX(clientToCanvasX(tx), pick, "touchStarted")

touchStarted == \E tx \in PointerXs, pick \in Picks : touchStartedAt(tx, pick)

\* click on #mobileDrop
mobileDropWith(pick) ==
  attemptSpawnAtScreenX(clientToCanvasX(width \div 2), pick, "mobileDrop")

mobileDrop == \E pick \in Picks : mobileDropWith(pick)

\* keyPressed with keyCode 32
keyPressedWith(pick) ==
  IF ~isRunning \/ gameOver THEN UNCHANGED vars
  ELSE spawnFruit(width \div 2, pick, "keyPressed") /\ UNCHANGED lastSpawnAt

keyPressed == \E pick \in Picks : keyPressedWith(pick)

\* ------------------------------------------------------------------------
\* Game control
\* ------------------------------------------------------------------------
\* a variant that re-arms an unlocked ClearSmall at every restart
ClearAfterRestartAlways == clearUnlocked

\* clearAvailable after startGame: off while locked, on again if it was
\* never used, else as it was
ClearAfterRestart ==
  IF ~clearUnlocked THEN FALSE
  ELSE IF ~clearUsed THEN TRUE ELSE clearAvailable

\* startGame(): click on #startBtn or #restartBtn
startGame ==
  /\ world' = world \ Ids(bodies)
  /\ bodies' = <<>>
  /\ score' = 0
  /\ gameOver' = FALSE /\ isRunning' = TRUE
  /\ nextPick' = 1
  /\ clearAvailable' = ClearAfterRestart
  /\ pointsAccumSinceClear' = 0
  /\ last' = Op("startGame", <<>>)
  /\ fires' = 0
  /\ UNCHANGED <<window, previousBoardRect, now, nextId, created, consumed, mergeChain, pointsSinceUse, uses, contacts, timers, high, stored,
                 mergedThisStep, lastSpawnAt, lastSpawnTime, clearUnlocked,
                 clearUsed, chainCount, chainTimer, lastMergeTime>>

\* startFromLanding(): click on #btnReset or #mobileNew
startFromLanding ==
  /\ isRunning' = FALSE /\ gameOver' = FALSE
  /\ nextPick' = IF nextPick = 0 THEN 1 ELSE nextPick
  /\ last' = Op("startFromLanding", <<>>)
  /\ UNCHANGED fires
  /\ UNCHANGED <<window, previousBoardRect, now, nextId, created, consumed, mergeChain, pointsSinceUse, uses, bodies, world, contacts, timers, score, high,
                 stored, mergedThisStep, lastSpawnAt, lastSpawnTime, clearUnlocked,
                 clearAvailable, pointsAccumSinceClear, clearUsed, chainCount,
                 chainTimer, lastMergeTime>>

\* a variant of the guard that looks only at the unlock
ClearBlockedWhenLocked == ~clearUnlocked

\* if(!clearUnlocked || !clearAvailable) return;
ClearBlocked == ~clearUnlocked \/ ~clearAvailable

\* handleClearSmall(): click on #btnClear
handleClearSmall ==
  IF ClearBlocked THEN UNCHANGED vars
  ELSE /\ world' = world \ {bodies[i].id : i \in {j \in 1..Len(bodies) : bodies[j].level <= 2}}
       /\ bodies' = SelectSeq(bodies, LAMBDA b : b.level > 2)
       /\ clearAvailable' = FALSE
       /\ pointsAccumSinceClear' = 0
       /\ clearUsed' = TRUE
       /\ pointsSinceUse' = 0 /\ uses' = uses + 1
       /\ last' = Op("handleClearSmall", <<>>)
       /\ UNCHANGED <<window, previousBoardRect, now, nextId, created, consumed, mergeChain, contacts, timers, isRunning, gameOver, fires,
                      score, high, stored, mergedThisStep, nextPick, lastSpawnAt,
                      lastSpawnTime, clearUnlocked, chainCount, chainTimer,
                      lastMergeTime>>


\* ------------------------------------------------------------------------
\* Merge scheduling & collision
\* ------------------------------------------------------------------------
\* squared Vector.magnitude of the difference of two positions / velocities
Dist2(a, b) == Sq(a.x - b.x) + Sq(a.y - b.y)
RelVel2(a, b) == Sq(a.vx - b.vx) + Sq(a.vy - b.vy)

\* d <= (rA + rB) * MERGE_MIN_DIST, on the squares
WithinMergeDist(a, b) == Dist2(a, b) <= Sq((a.radius + b.radius) * MERGE_MIN_DIST)

\* a variant that takes no tier for the last
AtMaxLevelNever(level) == FALSE

\* level >= MAX_LEVEL: the guard of scheduleMergeCheck, of onCollision and of
\* tryMergePair
AtMaxLevel(level) == level >= MAX_LEVEL

\* the pending callback scheduleMergeCheck(A, B) leaves behind
Timer(a, b) == [idA |-> Min(a.id, b.id), idB |-> Max(a.id, b.id), lev |-> a.level]

\* onCollision(event) over the fruit pairs of the event, with the guard of
\* scheduleMergeCheck: the callbacks it schedules.  Pairs with a static bound
\* carry no _fruit on one side and are skipped.
onCollision(bs, pairs) ==
  {Timer(Find(bs, CHOOSE i \in pr : \A j \in pr : i <= j),
         Find(bs, CHOOSE i \in pr : \A j \in pr : i >= j)) :
     pr \in {q \in pairs :
               /\ q \cap Statics = {}
               /\ \A i \in q : Has(bs, i)
               /\ \A i, j \in q :
                    /\ Find(bs, i).level = Find(bs, j).level
                    /\ ~AtMaxLevel(Find(bs, i).level)
                    /\ WithinMergeDist(Find(bs, i), Find(bs, j))}}

\* recordMergeForChain(): the chain count of the merge happening now
\* a variant that does not look at the last drop
ChainAfterMergeAnyDrop ==
  IF lastMergeTime # 0 /\ (now - lastMergeTime) <= CHAIN_TIMEOUT
  THEN chainCount + 1 ELSE 1

ChainAfterMerge ==
  IF lastMergeTime # 0 /\ (now - lastMergeTime) <= CHAIN_TIMEOUT
     /\ lastSpawnTime <= lastMergeTime
  THEN chainCount + 1 ELSE 1

\* a variant that climbs two tiers
NextLevelSkip(level) == Min(level + 2, MAX_LEVEL)

\* Math.min(A._fruit.level + 1, MAX_LEVEL)
NextLevel(level) == Min(level + 1, MAX_LEVEL)

\* a variant whose filter drops only A
RemovePairKeepB(bs, A, B) == SelectSeq(bs, LAMBDA bb : bb.id # A.id)

\* bodies.filter(bb => bb.id !== A.id && bb.id !== B.id)
RemovePair(bs, A, B) == SelectSeq(bs, LAMBDA bb : bb.id # A.id /\ bb.id # B.id)

\* a variant that takes the running score for the high score at every merge
HighAfterAlways(score1) == score1

\* if(score > high) high = score
HighAfter(score1) == IF score1 > high THEN score1 ELSE high

\* tryMergePair(A, B) past its guards: remove both, create the next level at
\* the midpoint, score, high score, ClearSmall unlock / recharge
MergeBodies(A, B) ==
  LET level == NextLevel(A.level)
      posX == (A.x + B.x) \div 2
      posY == (A.y + B.y) \div 2
      nb == createFruitAt(level, posX, posY - 6)
      chain == ChainAfterMerge
      ptsFinal == scoreForMerge(level, chain)
      score1 == score + ptsFinal
      accum1 == pointsAccumSinceClear + ptsFinal
      unlockNow == ~clearUnlocked /\ score1 >= CLEAR_UNLOCK_SCORE
      unlocked1 == clearUnlocked \/ unlockNow
      avail1 == clearAvailable \/ unlockNow
      recharge == unlocked1 /\ ~avail1 /\ accum1 >= CLEAR_RECHARGE_POINTS
  IN /\ CanMerge
     /\ created' = created + 1
     /\ world' = (world \ {A.id, B.id}) \cup {nb.id}
     /\ bodies' = Append(RemovePair(bodies, A, B), nb)
     /\ consumed' = consumed \cup {A.id, B.id}
     /\ mergeChain' = chain
     /\ pointsSinceUse' = pointsSinceUse + ptsFinal
     /\ UNCHANGED uses
     /\ nextId' = nextId + 1
     /\ chainCount' = chain
     /\ lastMergeTime' = now
     /\ chainTimer' = now + CHAIN_TIMEOUT
     /\ score' = score1
     /\ high' = HighAfter(score1)
     /\ stored' = IF score1 > high THEN String(score1) ELSE stored
     /\ clearUnlocked' = unlocked1
     /\ clearAvailable' = (avail1 \/ recharge)
     /\ pointsAccumSinceClear' = IF recharge THEN 0 ELSE accum1
     /\ last' = Op("merge", <<A.id, B.id, nb.id, ptsFinal>>)

\* tryMergePair(A, B)
tryMergePair(A, B) ==
  IF A.id \in mergedThisStep \/ B.id \in mergedThisStep \/ AtMaxLevel(A.level)
  THEN /\ last' = Op("refused", <<A.id, B.id>>)
       /\ UNCHANGED <<nextId, created, consumed, mergeChain, pointsSinceUse, uses, bodies, world, score, high, stored, mergedThisStep,
                      clearUnlocked, clearAvailable, pointsAccumSinceClear,
                      chainCount, chainTimer, lastMergeTime>>
  ELSE /\ mergedThisStep' = mergedThisStep \cup {A.id, B.id}
       /\ IF A.id \notin world \/ B.id \notin world
          THEN /\ last' = Op("refused", <<A.id, B.id>>)
               /\ UNCHANGED <<nextId, created, consumed, mergeChain, pointsSinceUse, uses, bodies, world, score, high, stored,
                              clearUnlocked, clearAvailable, pointsAccumSinceClear,
                              chainCount, chainTimer, lastMergeTime>>
          ELSE MergeBodies(A, B)

\* a variant that looks only at bodyA
MissingOnlyA(bodyA, bodyB) == bodyA = undefined

\* if(!bodyA || !bodyB) return;
Missing(bodyA, bodyB) == bodyA = undefined \/ bodyB = undefined

\* a variant without the relative velocity test
CloseOnly(bodyA, bodyB) == WithinMergeDist(bodyA, bodyB)

\* d <= minDist && relVel <= 2.8
CloseAndSlow(bodyA, bodyB) ==
  WithinMergeDist(bodyA, bodyB) /\ RelVel2(bodyA, bodyB) <= Sq(MergeMaxRelVel)

\* the callback returning without a merge (the record keeps the pair, the
\* tier it was scheduled for and the time of the callback)
NoMerge(name, t) ==
  /\ last' = Op(name, <<t.idA, t.idB, t.lev, now>>)
  /\ UNCHANGED <<nextId, created, consumed, mergeChain, pointsSinceUse, uses, bodies, world, score, high, stored,
                 mergedThisStep, clearUnlocked, clearAvailable,
                 pointsAccumSinceClear, chainCount, chainTimer, lastMergeTime>>

\* the setTimeout callback of scheduleMergeCheck(A, B) firing.  Reading
\* _fruit of undefined throws a TypeError, which ends the callback.
mergeCheck(t) ==
  LET bodyA == Find(bodies, t.idA)
      bodyB == Find(bodies, t.idB)
  IN /\ timers' = timers \ {t}
     /\ UNCHANGED <<window, previousBoardRect, now, contacts, isRunning, gameOver, fires, nextPick, lastSpawnAt,
                    lastSpawnTime, clearUsed>>
     /\ IF Missing(bodyA, bodyB) THEN NoMerge("stale", t)
        ELSE IF bodyA = undefined \/ bodyB = undefined THEN NoMerge("TypeError", t)
        ELSE IF bodyA.level # t.lev \/ bodyB.level # t.lev THEN NoMerge("stale", t)
        ELSE IF ~CloseAndSlow(bodyA, bodyB) THEN NoMerge("rejected", t)
        ELSE tryMergePair(bodyA, bodyB)

MergeTimer == \E t \in timers : mergeCheck(t)

\* the chain timer of recordMergeForChain firing (0 = no timer pending)
chainTimeout ==
  /\ chainTimer # 0 /\ now >= chainTimer
  /\ chainCount' = 0
  /\ chainTimer' = 0
  /\ last' = Op("chainTimeout", <<>>)
  /\ UNCHANGED <<window, previousBoardRect, now, nextId, created, consumed, mergeChain, pointsSinceUse, uses, bodies, world, contacts, timers, isRunning,
                 gameOver, fires, score, high, stored, mergedThisStep, nextPick, lastSpawnAt,
                 lastSpawnTime, clearUnlocked, clearAvailable, pointsAccumSinceClear,
                 clearUsed, lastMergeTime>>


\* ------------------------------------------------------------------------
\* The physics engine (Matter.js), as the environment
\* ------------------------------------------------------------------------
\* Where Engine.update may leave a body: top edge above the danger line, top
\* edge just under it, resting on the ground, or fallen far below the canvas;
\* at rest or moving fast sideways.  A body keeps its x.
Rest == <<0, 0>>
Fast == <<300, 0>>
Poses == {<<"above", Rest>>, <<"above", Fast>>, <<"under", Rest>>, <<"under", Fast>>,
          <<"ground", Rest>>, <<"fallen", Rest>>}

Place(b, pose) ==
  LET zone == pose[1]
      y == CASE zone = "above" -> topLineY - 4 + b.radius
             [] zone = "under" -> topLineY + 4 + b.radius
             [] zone = "ground" -> boardY + boardW - b.radius
             [] OTHER -> height + FallOffMargin + 2
  IN [b EXCEPT !.y = y, !.vx = pose[2][1], !.vy = pose[2][2]]

\* the pairs the engine finds colliding: overlapping circles, and circles
\* touching the ground
Colliding(bs) ==
  {{bs[i].id, bs[j].id} : i, j \in 1..Len(bs)} \ {{bs[i].id} : i \in 1..Len(bs)}

Overlapping(bs) ==
  {pr \in Colliding(bs) :
     \A i, j \in pr : Dist2(Find(bs, i), Find(bs, j)) <= Sq(Find(bs, i).radius + Find(bs, j).radius)}
  \cup {{GroundId, bs[i].id} : i \in {j \in 1..Len(bs) : bs[j].y + bs[j].radius >= boardY + boardW}}

\* ------------------------------------------------------------------------
\* draw(): one frame
\* ------------------------------------------------------------------------
\* a variant without the grace period
InGraceNever(b, t) == FALSE

InGrace(b, t) == b.spawnTime # 0 /\ (t - b.spawnTime) < SPAWN_GRACE_MS
TopOfFruit(b) == b.y - b.radius
Speed2(b) == Sq(b.vx) + Sq(b.vy)

\* the two branches of the game-over detection loop
OverLine(b) == TopOfFruit(b) < topLineY + 2
Settled(b) == TopOfFruit(b) < topLineY + 8 /\ Speed2(b) < Sq(SettleSpeed)
Overflows(b, t) == ~InGrace(b, t) /\ (OverLine(b) \/ Settled(b))

\* calls of triggerGameOver in the detection loop, which breaks at the first
GameOverCalls(culprits) == IF culprits = {} THEN 0 ELSE 1

\* the frame after Engine.update left the bodies as `stepped`
drawAfterUpdate(t, stepped) ==
  LET colliding == Overlapping(stepped)
      \* collisionStart: the pairs that started colliding, to onCollision
      scheduled == onCollision(stepped, colliding \ contacts)
      \* clampBodyInsideBoard on every drawn body
      clamped == [i \in 1..Len(stepped) |-> clampBodyInsideBoard(stepped[i])]
      pushedUp == {stepped[i].id : i \in {j \in 1..Len(stepped) : OverLine(stepped[j])}}
  IN \E kept \in {SelectSeq(clamped, LAMBDA b : ~(b.y > height + FallOffMargin))} :
       \* bodies far below the canvas are gone; triggerFruitSupernova
       LET terminalCount == Cardinality({i \in 1..Len(kept) : kept[i].level = MAX_LEVEL})
           nova == ~gameOver /\ terminalCount >= SupernovaCount
           \* game over detection; triggerGameOver
           culprits == IF gameOver \/ nova THEN {}
                       ELSE {i \in 1..Len(kept) : Overflows(kept[i], t)}
           over == culprits # {}
           first == CHOOSE i \in culprits : \A j \in culprits : i <= j
           fired == IF nova THEN <<"supernova", 0>>
                    ELSE IF ~over THEN <<"none", 0>>
                    ELSE IF OverLine(kept[first]) THEN <<"overLine", kept[first].id>>
                    ELSE <<"settled", kept[first].id>>
       IN /\ now' = t
          /\ contacts' = colliding
          /\ timers' = timers \cup scheduled
          /\ mergedThisStep' = {}
          /\ bodies' = IF nova THEN <<>> ELSE kept
          /\ world' = IF nova THEN world \ Ids(bodies)
                      ELSE world \ (Ids(bodies) \ Ids(kept))
          /\ gameOver' = (gameOver \/ nova \/ over)
          /\ fires' = fires + (IF nova THEN 1 ELSE 0) + GameOverCalls(culprits)
          /\ isRunning' = (isRunning /\ ~nova /\ ~over)
          /\ last' = Op("draw", <<fired[1], fired[2], pushedUp>>)
          /\ UNCHANGED <<window, previousBoardRect, nextId, created, consumed, mergeChain, pointsSinceUse, uses, score, high, stored, nextPick, lastSpawnAt,
                         lastSpawnTime, clearUnlocked, clearAvailable,
                         pointsAccumSinceClear, clearUsed, chainCount, chainTimer,
                         lastMergeTime>>

\* draw() at time now + dt, the engine moving the bodies in DOMAIN move
draw(dt, move) ==
  /\ now + dt <= MaxTime
  /\ \E stepped \in {[i \in 1..Len(bodies) |->
                        IF i \in DOMAIN move THEN Place(bodies[i], move[i])
                        ELSE bodies[i]]} :
       drawAfterUpdate(now + dt, stepped)

\* draw() once the clock has passed the last time the model counts: the frames
\* go on, the model's clock stands still
drawLate(move) ==
  /\ \A dt \in Steps : now + dt > MaxTime
  /\ \E stepped \in {[i \in 1..Len(bodies) |->
                        IF i \in DOMAIN move THEN Place(bodies[i], move[i])
                        ELSE bodies[i]]} :
       drawAfterUpdate(now, stepped)

FrameLate ==
  \E S \in {{}} \cup {{i} : i \in 1..Len(bodies)} :
    \E move \in [S -> Poses] : drawLate(move)

\* a frame: the time since the last one, and the body the engine moved to
\* another zone, if any (the others stay where the last frame left them)
Frame ==
  \E dt \in Steps :
    \E S \in {{}} \cup {{i} : i \in 1..Len(bodies)} :
      \E move \in [S -> Poses] : draw(dt, move)

\* ------------------------------------------------------------------------
\* A round in progress
\* ------------------------------------------------------------------------
\* A late board: four bodies of the last level and two of the level below at
\* rest on the ground, a third of the level below moving under the danger
\* line; every body created at RoundTime, when the last merge ran.  The score is what building this
\* board from dropped level-4 fruit gives without chains.
RoundTime == 900
RoundLevels == <<9, 9, 9, 9, 8, 8, 8>>

RECURSIVE BuildPoints(_)
BuildPoints(level) ==
  IF level <= SPAWN_MAX_LEVEL THEN 0
  ELSE scoreForMerge(level, 1) + 2 * BuildPoints(level - 1)

RECURSIVE SumBuildPoints(_)
SumBuildPoints(levels) ==
  IF levels = <<>> THEN 0
  ELSE BuildPoints(Head(levels)) + SumBuildPoints(Tail(levels))

RoundBoard ==
  [i \in 1..Len(RoundLevels) |->
     LET r == radiusForLevel(RoundLevels[i])
         b == Body(3 + i, RoundLevels[i], r, width \div 2, 0, 0, 0, RoundTime)
     IN IF i < Len(RoundLevels) THEN Place(b, <<"ground", Rest>>)
        ELSE Place(b, <<"under", Fast>>)]

InitRound ==
  /\ window \in Viewports
  /\ now = StartTime
  /\ bodies = RoundBoard
  /\ nextId = 4 + Len(RoundBoard)
  /\ world = Statics \cup Ids(RoundBoard)
  /\ contacts = Overlapping(RoundBoard)
  /\ timers = {}
  /\ isRunning = TRUE /\ gameOver = FALSE
  /\ score = SumBuildPoints(RoundLevels)
  /\ high = score
  /\ stored = String(high)
  /\ mergedThisStep = {}
  /\ nextPick = 1
  /\ lastSpawnAt = RoundTime /\ lastSpawnTime = RoundTime
  /\ clearUnlocked = TRUE /\ clearAvailable = TRUE
  /\ pointsAccumSinceClear = score /\ clearUsed = FALSE
  /\ chainCount = 1 /\ chainTimer = RoundTime + CHAIN_TIMEOUT /\ lastMergeTime = RoundTime
  /\ created = 0
  /\ consumed = {}
  /\ mergeChain = 1
  /\ pointsSinceUse = 0 /\ uses = 0
  /\ fires = 0
  /\ previousBoardRect = computeBoardRect
  /\ last = Op("round", <<>>)

\* ------------------------------------------------------------------------
\* Specification
\* ------------------------------------------------------------------------
\* from setup(): the frames, the merge checks and every control.  setup()
\* leaves chainTimer null, and a chain timer a merge starts within MaxTime is
\* due CHAIN_TIMEOUT later, past MaxTime: its callback is a step of the round
\* in progress below.
\* ------------------------------------------------------------------------
\* windowResized()
\* ------------------------------------------------------------------------
\* the variant that takes the rectangle computed in setup() for the old one
oldRectAtSetup ==
  [boardW |-> 780, boardX |-> 110, boardY |-> 110]

\* oldRect: previousBoardRect || computeBoardRect(); previousBoardRect is set
\* in setup() and never null afterwards
oldRect == previousBoardRect

\* the loop body of windowResized for one body: position relative to the old
\* rectangle scaled by sx = newRect.boardW / oldRect.boardW (sy = sx), the
\* velocity scaled alike; _fruit.radius and the circle are left as they are
ResizedBody(b, old, new) ==
  [b EXCEPT !.x = new.boardX + ((b.x - old.boardX) * new.boardW) \div old.boardW,
            !.y = new.boardY + ((b.y - old.boardY) * new.boardW) \div old.boardW,
            !.vx = (b.vx * new.boardW) \div old.boardW,
            !.vy = (b.vy * new.boardW) \div old.boardW]

\* windowResized() after the window took the size v. createBounds() replaces
\* the three static bounds; the model names them by role (GroundId, ...), so
\* the world and the contacts keep their entries
windowResized ==
  \E v \in ResizeTo \ {window} :
    /\ window' = v
    /\ bodies' = [i \in 1..Len(bodies) |->
                    ResizedBody(bodies[i], oldRect, computeBoardRect')]
    /\ previousBoardRect' = computeBoardRect'
    /\ last' = Op("windowResized", <<>>)
    /\ UNCHANGED <<now, nextId, created, consumed, mergeChain, pointsSinceUse, uses, world, contacts, timers,
                   isRunning, gameOver, fires, score, high, stored, mergedThisStep,
                   nextPick, lastSpawnAt, lastSpawnTime, clearUnlocked, clearAvailable,
                   pointsAccumSinceClear, clearUsed, chainCount, chainTimer,
                   lastMergeTime>>

Next ==
  \/ Frame
  \/ MergeTimer
  \/ mousePressed
  \/ touchStarted
  \/ mobileDrop
  \/ keyPressed
  \/ startGame
  \/ startFromLanding
  \/ handleClearSmall

Spec == Init /\ [][Next]_vars

\* from a round in progress: the frames, the timers, and the player at the
\* keyboard and the buttons
NextRound ==
  \/ Frame
  \/ MergeTimer
  \/ chainTimeout
  \/ keyPressed
  \/ startGame
  \/ handleClearSmall

SpecRound == InitRound /\ [][NextRound]_vars

\* from a round in progress: the frames and the player at the Start and New
\* Game buttons only
NextLanding ==
  \/ Frame
  \/ startGame
  \/ startFromLanding

SpecLanding == InitRound /\ [][NextLanding]_vars

\* a draw in each of weightedPick's four slots, and taps near the edges of
\* the three boards and in the middle
DropRandoms == {39, 71, 89, 99}
DropXs == {60, 112, 120, 500, 885, 1775}

\* from setup(), between two frames: the player drops fruit by every input
\* path, with every tier weightedPick can give, while the window is resized
NextDrop ==
  \/ startGame
  \/ windowResized
  \/ \E x \in DropXs, r \in DropRandoms : mousePressedAt(x, weightedPick(r))
  \/ \E x \in DropXs, r \in DropRandoms : touchStartedAt(x, weightedPick(r))
  \/ \E r \in DropRandoms : mobileDropWith(weightedPick(r))
  \/ \E r \in DropRandoms : keyPressedWith(weightedPick(r))

SpecDrop == Init /\ [][NextDrop]_vars

\* the slot at load: absent, and decimal strings below and above the points
\* of the first merge
SlotsAtLoad == {<<>>, <<"7">>} \cup StoredAtLoad

\* setup() with any of these slots
InitHigh ==
  \E saved \in SlotsAtLoad :
    /\ stored = saved /\ high = LoadHigh(saved)
    /\ window \in Viewports
    /\ now = StartTime /\ nextId = 4 /\ bodies = <<>> /\ world = Statics
    /\ contacts = {} /\ timers = {}
    /\ isRunning = FALSE /\ gameOver = FALSE /\ score = 0
    /\ mergedThisStep = {} /\ nextPick = 1
    /\ lastSpawnAt = 0 /\ lastSpawnTime = 0
    /\ clearUnlocked = FALSE /\ clearAvailable = FALSE
    /\ pointsAccumSinceClear = 0 /\ clearUsed = FALSE
    /\ chainCount = 0 /\ chainTimer = 0 /\ lastMergeTime = 0
    /\ created = 0 /\ consumed = {} /\ mergeChain = 0
    /\ pointsSinceUse = 0 /\ uses = 0 /\ fires = 0
    /\ previousBoardRect = computeBoardRect
    /\ last = Op("setup", <<>>)

\* from setup(): the player at the spacebar and the Start button, the frames
\* and the merge timers
NextHigh ==
  \/ Frame
  \/ MergeTimer
  \/ keyPressed
  \/ startGame

SpecHigh == InitHigh /\ [][NextHigh]_vars

\* from setup(), with frames that never stop: p5 calls draw() for every
\* animation frame and the browser runs every setTimeout callback that is due
NextLive ==
  \/ Frame
  \/ FrameLate
  \/ MergeTimer
  \/ keyPressed
  \/ startGame

\* what a frame or a timer callback can change of the game
played == <<now, bodies, world, contacts, timers, isRunning, gameOver, score,
            mergedThisStep>>

SpecLive ==
  /\ Init /\ [][NextLive]_vars
  /\ WF_played(Frame \/ FrameLate) /\ WF_played(MergeTimer)

\* ------------------------------------------------------------------------
\* Positions as JavaScript numbers
\* ------------------------------------------------------------------------
\* Every coordinate of the code is an IEEE-754 binary64 number and every
\* + - * of the code rounds its result to 53 significant bits (to nearest,
\* ties to even).  A non-negative number is held exactly here, as a count of
\* units of 2^-53 written in base 2^15, least significant digit first.
Base == 32768
Limbs == 7
Digits == 1..Limbs

RECURSIVE Carry(_, _, _)
Carry(s, i, c) ==
  IF i > Limbs THEN <<>>
  ELSE <<(s[i] + c) % Base>> \o Carry(s, i + 1, (s[i] + c) \div Base)

BigAdd(a, b) == Carry([i \in Digits |-> a[i] + b[i]], 1, 0)
\* a - b for a >= b
BigSub(a, b) == Carry([i \in Digits |-> a[i] - b[i]], 1, 0)
\* n * a for an integer 0 <= n < Base
BigMul(n, a) == Carry([i \in Digits |-> n * a[i]], 1, 0)

RECURSIVE RemAbove(_, _, _)
RemAbove(a, d, i) ==
  IF i > Limbs THEN 0 ELSE (RemAbove(a, d, i + 1) * Base + a[i]) % d

\* floor(a / d) for an integer 0 < d < Base
BigDiv(a, d) ==
  [i \in Digits |-> (RemAbove(a, d, i + 1) * Base + a[i]) \div d]

BigLess(a, b) ==
  \E i \in Digits : a[i] < b[i] /\ \A j \in (i + 1)..Limbs : a[j] = b[j]
BigMin(a, b) == IF BigLess(b, a) THEN b ELSE a
BigMax(a, b) == IF BigLess(a, b) THEN b ELSE a

\* the integer n (0 <= n < 2^12) as a number: n * 2^53 = n * 2^8 * Base^3
FromInt(n) == Carry([i \in Digits |-> IF i = 4 THEN n * 256 ELSE 0], 1, 0)
\* floor of a number below 2^12
IntPart(a) == a[4] \div 256 + a[5] * 128

RECURSIVE BitsOf(_)
BitsOf(n) == IF n = 0 THEN 0 ELSE 1 + BitsOf(n \div 2)

\* the number of significant bits of a
BitLength(a) ==
  IF \A i \in Digits : a[i] = 0 THEN 0
  ELSE LET top == CHOOSE i \in Digits : a[i] # 0 /\ \A j \in (i + 1)..Limbs : a[j] = 0
       IN 15 * (top - 1) + BitsOf(a[top])

\* a rounded to a multiple of p = 2^k (0 < k < 15, so that the bits cut are
\* all in the lowest digit) that is rem above the multiple below it: to the
\* nearest, and of two equally near to the even one
RoundBy(a, p, rem) ==
  IF 2 * rem > p \/ (2 * rem = p /\ (a[1] \div p) % 2 = 1)
  THEN Carry([a EXCEPT ![1] = a[1] - rem + p], 1, 0)
  ELSE [a EXCEPT ![1] = a[1] - rem]

RoundTo(a, p) == RoundBy(a, p, a[1] % p)

\* a with k bits too many for a binary64
RoundOff(a, k) == IF k <= 0 THEN a ELSE RoundTo(a, Pow(2, k))

\* the binary64 nearest to a, ties to even, for a below 2^14
Round64(a) == RoundOff(a, BitLength(a) - 53)

\* the literals 0.94 and 0.78 as the binary64 numbers the parser makes of
\* them: 8466767299456532 * 2^-53 and 7025615418697974 * 2^-53
Lit094 == <<11796, 17039, 20971, 240, 0, 0, 0>>
Lit078 == <<10486, 7864, 22282, 199, 0, 0, 0>>

\* the rectangle of a board w wide; boardW and boardY only
BoardOf(w) ==
  [boardW |-> w,
   boardY |-> BigDiv(Round64(BigSub(FromInt(window.innerHeight), w)), 2)]

\* computeBoardRect() as the code computes it
computeBoardRect64 ==
  BoardOf(BigMin(Round64(BigMul(window.innerWidth,
                                IF window.innerWidth < 760 THEN Lit094 ELSE Lit078)),
                 Round64(BigMul(window.innerHeight, Lit078))))

RECURSIVE Times7(_, _)
Times7(a, n) == IF n = 0 THEN a ELSE Times7(BigMul(7, a), n - 1)
RECURSIVE Over5(_, _)
Over5(a, n) == IF n = 0 THEN a ELSE Over5(BigDiv(a, 5), n - 1)

\* radiusForLevel(l) on the binary64 boardW.  raw and the cap are taken as the
\* exact products boardW * 7^(lvl-1) / (50 * 5^(lvl-1)) and boardW * 13 / 50:
\* the code's rounded products differ from them by less than 2^-40, which
\* Math.round sees only within that distance of a half
RadiusOn(w, lvl) ==
  IntPart(BigAdd(BigMax(FromInt(4),
                        BigMin(Over5(BigDiv(Times7(w, lvl - 1), 50), lvl - 1),
                               BigDiv(BigMul(13, w), 50))),
                 BigDiv(FromInt(1), 2)))

radiusForLevel64(l) == RadiusOn(computeBoardRect64.boardW, Max(1, Min(l, MAX_LEVEL)))

\* topLineY = boardY + 8
topLineY64 == Round64(BigAdd(computeBoardRect64.boardY, FromInt(8)))
\* topLineY + 2 and topLineY + 8, which the tests compare with
Line64(topLine) == Round64(BigAdd(topLine, FromInt(2)))
SettleLine64(topLine) == Round64(BigAdd(topLine, FromInt(8)))

\* b.position.y - b._fruit.radius
TopOfFruit64(b) == Round64(BigSub(b.y, FromInt(b.radius)))

\* the two branches of the game-over detection loop
OverLine64(b, topLine) == BigLess(TopOfFruit64(b), Line64(topLine))
Settled64(b, topLine) ==
  BigLess(TopOfFruit64(b), SettleLine64(topLine)) /\ Speed2(b) < Sq(SettleSpeed)

\* clampBodyInsideBoard(b), the part that acts on y and the velocity
clampBodyInsideBoard64(b, topLine) ==
  IF OverLine64(b, topLine)
  THEN [b EXCEPT !.y = Round64(BigAdd(Line64(topLine), FromInt(b.radius))),
                 !.vx = (b.vx * 3) \div 10, !.vy = Max(10, b.vy \div 5)]
  ELSE b

\* Engine.update leaves the body with its top 4 px above the line or 4 px
\* under it, at rest or moving sideways
Poses64 == {<<"above", Rest>>, <<"above", Fast>>, <<"under", Rest>>, <<"under", Fast>>}

Place64(b, pose, topLine) ==
  [b EXCEPT !.y = Round64(BigAdd(IF pose[1] = "above"
                                 THEN Round64(BigSub(topLine, FromInt(4)))
                                 ELSE Round64(BigAdd(topLine, FromInt(4))),
                                 FromInt(b.radius))),
            !.vx = pose[2][1], !.vy = pose[2][2]]

\* window sizes of phones held upright and of the load of the other
\* specifications
Windows64 ==
  {[innerWidth |-> w, innerHeight |-> h] : w \in {390, 430}, h \in {746, 852, 932}}
    \cup Viewports

\* a round on a board with one fruit of any tier that is past its grace
\* period and lies under the line
Init64 ==
  /\ window \in Windows64
  /\ now = StartTime
  /\ nextId = 5
  /\ \E l \in 1..MAX_LEVEL, topLine \in {topLineY64} :
       bodies = <<Place64(Body(4, l, radiusForLevel64(l), boardX + boardW \div 2,
                               topLine, 0, 0, StartTime - SPAWN_GRACE_MS),
                          <<"under", Rest>>, topLine)>>
  /\ world = Statics \cup {4}
  /\ contacts = {}
  /\ timers = {}
  /\ isRunning = TRUE /\ gameOver = FALSE
  /\ score = 0
  /\ stored = <<>>
  /\ high = 0
  /\ mergedThisStep = {}
  /\ nextPick = 1
  /\ lastSpawnAt = 0 /\ lastSpawnTime = 0
  /\ clearUnlocked = FALSE /\ clearAvailable = FALSE
  /\ pointsAccumSinceClear = 0 /\ clearUsed = FALSE
  /\ chainCount = 0 /\ chainTimer = 0 /\ lastMergeTime = 0
  /\ created = 1
  /\ consumed = {}
  /\ mergeChain = 0
  /\ pointsSinceUse = 0 /\ uses = 0
  /\ fires = 0
  /\ previousBoardRect = computeBoardRect
  /\ last = Op("startGame", <<>>)

\* draw() on that board: Engine.update, the clamp of every drawn body, then
\* the game-over detection
Frame64 ==
  \E dt \in Steps, pose \in Poses64, topLine \in {topLineY64} :
    /\ now + dt <= MaxTime
    /\ \E stepped \in {[i \in 1..Len(bodies) |-> Place64(bodies[i], pose, topLine)]} :
       \E clamped \in {[i \in 1..Len(stepped) |->
                          clampBodyInsideBoard64(stepped[i], topLine)]} :
       \E overLine \in {{i \in 1..Len(clamped) : OverLine64(clamped[i], topLine)}} :
       LET pushedUp == {stepped[i].id :
                          i \in {j \in 1..Len(stepped) : OverLine64(stepped[j], topLine)}}
           culprits == IF gameOver THEN {}
                       ELSE {i \in 1..Len(clamped) :
                               /\ ~InGrace(clamped[i], now + dt)
                               /\ i \in overLine \/ Settled64(clamped[i], topLine)}
           over == culprits # {}
           first == CHOOSE i \in culprits : \A j \in culprits : i <= j
           fired == IF ~over THEN <<"none", 0>>
                    ELSE IF first \in overLine THEN <<"overLine", clamped[first].id>>
                    ELSE <<"settled", clamped[first].id>>
       IN /\ now' = now + dt
          /\ bodies' = clamped
          /\ mergedThisStep' = {}
          /\ gameOver' = (gameOver \/ over)
          /\ fires' = fires + GameOverCalls(culprits)
          /\ isRunning' = (isRunning /\ ~over)
          /\ last' = Op("draw", <<fired[1], fired[2], pushedUp>>)
    /\ UNCHANGED <<window, previousBoardRect, nextId, created, consumed, mergeChain,
                   pointsSinceUse, uses, score, high, stored, nextPick, lastSpawnAt,
                   lastSpawnTime, clearUnlocked, clearAvailable, world, contacts,
                   timers, pointsAccumSinceClear, clearUsed, chainCount, chainTimer,
                   lastMergeTime>>

Next64 == Frame64

Spec64 == Init64 /\ [][Next64]_vars

\* ------------------------------------------------------------------------
\* Properties

\* a step in which tryMergePair went past its guards
MergeStep == last'.op = "merge" /\ created' = created + 1

\* a step in which draw() ran
DrawStep == last'.op = "draw" /\ now' # now

\* the pending check t ran in this step
TimerStep(t) == t \in timers /\ timers' = timers \ {t}

Age(b, t) == t - b.spawnTime

\* C1: an executed merge takes both source bodies out of the list and out
\* of the world and adds exactly one new body, of a higher tier, to both;
\* every other body stays, unchanged, and no other body appears.
C1_MergeReplacesPair ==
  [][MergeStep =>
       LET a == last'.args[1]
           b == last'.args[2]
           nb == last'.args[3]
       IN /\ a # b
          /\ {a, b} \subseteq Ids(bodies) /\ {a, b} \subseteq world
          /\ nb \notin Ids(bodies) \cup world
          /\ Len(bodies') = Len(bodies) - 1
          /\ Cardinality(Ids(bodies')) = Len(bodies')
          /\ Ids(bodies') = (Ids(bodies) \ {a, b}) \cup {nb}
          /\ world' = (world \ {a, b}) \cup {nb}
          /\ Find(bodies', nb).level > Find(bodies, a).level
          /\ \A id \in Ids(bodies) \ {a, b} : Find(bodies', id) = Find(bodies, id)]_vars

\* a merge has just run on a board that holds other bodies too
C1_Witness ==
  /\ last.op = "merge"
  /\ Has(bodies, last.args[3])
  /\ Len(bodies) >= 3

\* C2: the body a merge of two tier-k bodies creates has tier
\* min(MAX_LEVEL, k + 1).
C2_MergedTier ==
  [][MergeStep =>
       LET k == Find(bodies, last'.args[1]).level
       IN /\ Find(bodies, last'.args[2]).level = k
          /\ k \in 1..MAX_LEVEL
          /\ Find(bodies', last'.args[3]).level = Min(MAX_LEVEL, k + 1)]_vars

\* two bodies of the tier below the last have just merged into a body of
\* the last tier
C2_Witness ==
  /\ last.op = "merge"
  /\ Has(bodies, last.args[3])
  /\ Find(bodies, last.args[3]).level = MAX_LEVEL

\* C3: a deferred merge check that runs when one of its two bodies is no
\* longer on the list raises no error and changes neither the list, the
\* world, the score, the high score nor the chain state.
C3_StaleCheckNoOp ==
  [][\A t \in timers :
       (TimerStep(t) /\ ~({t.idA, t.idB} \subseteq Ids(bodies)))
       => /\ last'.op # "TypeError"
          /\ UNCHANGED <<bodies, world, score, high, stored,
                         chainCount, chainTimer, lastMergeTime>>]_vars

\* a check ran after the board had lost both of its bodies
C3_Witness ==
  /\ last.op = "stale"
  /\ ~Has(bodies, last.args[1])
  /\ ~Has(bodies, last.args[2])

\* C4: a body is used up by at most one merge: the sources of a merge were
\* never merged before, a merged body is on neither the list nor the world
\* again, and a check that names a merged body changes nothing, so that its
\* other body stays on the board.
C4_ConsumedOnce ==
  [][/\ MergeStep => {last'.args[1], last'.args[2]} \cap consumed = {}
     /\ consumed' \cap (Ids(bodies') \cup world') = {}
     /\ \A t \in timers :
          (TimerStep(t) /\ {t.idA, t.idB} \cap consumed # {})
          => UNCHANGED <<bodies, world, score, consumed, mergeChain, mergedThisStep>>]_vars

\* of two checks that shared a body, the first merged and the second then
\* ran: its own partner is still on the board
C4_Witness ==
  /\ last.op = "stale"
  /\ \E x \in {last.args[1], last.args[2]} : \E z \in {last.args[1], last.args[2]} :
       /\ x \in consumed
       /\ z \notin consumed
       /\ Has(bodies, z)
       /\ Find(bodies, z).level = last.args[3]

\* C5: a merge runs only in a deferred check, never in draw() where the
\* contacts are reported, and only when at that time both bodies are on the
\* list and in the world, are fruit, have the tier seen at contact, are no
\* further apart than (rA + rB) * MERGE_MIN_DIST and differ in velocity by
\* at most 2.8; a check is scheduled only for two fruit of one tier.
C5_MergeOnlyWhenRevalidated ==
  [][/\ MergeStep =>
          LET A == Find(bodies, last'.args[1])
              B == Find(bodies, last'.args[2])
          IN /\ A # undefined /\ B # undefined
             /\ {A.id, B.id} \subseteq world \ Statics
             /\ \E t \in timers :
                  /\ TimerStep(t)
                  /\ {t.idA, t.idB} = {A.id, B.id}
                  /\ A.level = t.lev /\ B.level = t.lev
             /\ Dist2(A, B) <= Sq((A.radius + B.radius) * MERGE_MIN_DIST)
             /\ RelVel2(A, B) <= Sq(MergeMaxRelVel)
     /\ DrawStep => created' = created /\ score' = score
     /\ \A t \in timers' \ timers :
          /\ {t.idA, t.idB} \cap Statics = {}
          /\ Has(bodies, t.idA) /\ Has(bodies, t.idB)
          /\ Find(bodies, t.idA).level = t.lev
          /\ Find(bodies, t.idB).level = t.lev]_vars

\* a check found its two bodies on the board, too far apart or too fast,
\* and left them
C5_Witness ==
  /\ last.op = "rejected"
  /\ Has(bodies, last.args[1])
  /\ Has(bodies, last.args[2])

\* C6: the round ends in game over only in draw(), and then a body at least
\* SPAWN_GRACE_MS old has its top within the band at the line; the body
\* that triggered it is that old.
C6_GameOverOnlyPastGrace ==
  [][(~gameOver /\ gameOver' /\ ~(DrawStep /\ last'.args[1] = "supernova"))
       => /\ DrawStep
          /\ Has(bodies', last'.args[2])
          /\ Age(Find(bodies', last'.args[2]), now') >= SPAWN_GRACE_MS
          /\ TopOfFruit(Find(bodies', last'.args[2])) < topLineY + 8]_vars

\* draw() ran over a body still in its grace period that rests at the line,
\* and the round goes on
C6_Witness ==
  /\ last.op = "draw"
  /\ last.args[1] = "none"
  /\ ~gameOver
  /\ \E i \in 1..Len(bodies) :
       /\ Age(bodies[i], now) < SPAWN_GRACE_MS
       /\ TopOfFruit(bodies[i]) < topLineY + 8
       /\ Speed2(bodies[i]) < Sq(SettleSpeed)

\* C7: while the round runs, a draw() in which a body past its grace period
\* has its top above the line after the physics step, or rests at the line
\* below the speed threshold, ends the round in that draw().
C7_OverLineEndsRound ==
  [][(isRunning /\ ~gameOver /\ DrawStep
      /\ \E i \in 1..Len(bodies') :
           /\ Age(bodies'[i], now') >= SPAWN_GRACE_MS
           /\ \/ bodies'[i].id \in last'.args[3]
              \/ /\ TopOfFruit(bodies'[i]) < topLineY + 8
                 /\ Speed2(bodies'[i]) < Sq(SettleSpeed))
       => gameOver']_vars

\* C8 as stated: with five bodies of the last tier the board is cleared and
\* the round goes on.
C8_SupernovaContinues ==
  [][(DrawStep /\ last'.args[1] = "supernova")
       => bodies' = <<>> /\ ~gameOver' /\ isRunning']_vars

\* C8: a draw() that starts with the game not over never leaves five bodies
\* of the last tier on the board: it removes every body from the list and
\* the world and ends the round with gameOver set, isRunning cleared and
\* the score kept; until a restart no drop adds a body.
C8_SupernovaEndsRound ==
  [][/\ (~gameOver /\ DrawStep)
          => Cardinality({i \in 1..Len(bodies') : bodies'[i].level = MAX_LEVEL}) < 5
     /\ (DrawStep /\ last'.args[1] = "supernova")
          => /\ bodies' = <<>> /\ world' = Statics
             /\ gameOver' /\ ~isRunning'
             /\ score' = score /\ high' = high
     /\ (gameOver /\ created' # created) => MergeStep]_vars

\* five bodies of the last tier were on the board and draw() cleared it
C8_Witness ==
  /\ last.op = "draw"
  /\ last.args[1] = "supernova"
  /\ bodies = <<>>
  /\ gameOver

\* C9: game over lasts until a restart: a step that leaves it starts a
\* round with the score at zero and the board empty.
C9_GameOverUntilRestart ==
  [][(gameOver /\ ~gameOver') => isRunning' /\ score' = 0 /\ bodies' = <<>>]_vars

\* C10: triggerGameOver and triggerFruitSupernova fire only in a draw()
\* that starts with the round running.
C10_EndsOnlyFromRunning ==
  [][(DrawStep /\ last'.args[1] # "none") => isRunning]_vars

\* C11: from one startGame to the next triggerFruitSupernova and
\* triggerGameOver are called at most once between them: not both and not
\* twice in one draw(), and not again in a later draw().
C11_NoDoubleFire == fires <= 1

\* chain counts for which the score table is compared
ChainCounts == 1..8

\* C12: a merge adds scoreForMerge(k, chain count) to the score, k the tier
\* of the body it creates; with chain count 1 that is 8 * 2^(k-1); and for
\* each chain count the points rise strictly with k over 1..MAX_LEVEL.
C12_MergeScore ==
  [][MergeStep =>
       LET k == Find(bodies', last'.args[3]).level
           pts == score' - score
       IN /\ pts = scoreForMerge(k, chainCount')
          /\ chainCount' = 1 => pts = 8 * Pow(2, k - 1)
          /\ \A c \in ChainCounts : \A j \in 1..(MAX_LEVEL - 1) :
               scoreForMerge(j, c) < scoreForMerge(j + 1, c)]_vars

\* two tier-1 bodies merged outside a chain and the score rose by 16
C12_Witness ==
  /\ last.op = "merge"
  /\ chainCount = 1
  /\ Has(bodies, last.args[3])
  /\ Find(bodies, last.args[3]).level = 2
  /\ last.args[4] = 16
  /\ score = 16

\* C13 as stated: a merge at most CHAIN_TIMEOUT after the merge before it
\* is scored with a chain count one higher than that merge's, a merge after
\* a longer gap with chain count 1.
C13_ChainByGapOnly ==
  [][MergeStep =>
       /\ score' - score = scoreForMerge(Find(bodies', last'.args[3]).level, chainCount')
       /\ chainCount' = IF mergeChain # 0 /\ now - lastMergeTime <= CHAIN_TIMEOUT
                        THEN mergeChain + 1 ELSE 1]_vars

\* C13: a merge at most CHAIN_TIMEOUT after the merge before it, with no
\* fruit dropped since that merge, is scored with the current chain count
\* plus one, which is one more than that merge's unless the chain timer has
\* already set the count to 0; a merge after a drop or after a longer gap
\* is scored with chain count 1.
C13_ChainByGapAndDrop ==
  [][MergeStep =>
       /\ score' - score = scoreForMerge(Find(bodies', last'.args[3]).level, chainCount')
       /\ chainCount \in {0, mergeChain}
       /\ chainCount' = IF /\ lastMergeTime # 0
                           /\ now - lastMergeTime <= CHAIN_TIMEOUT
                           /\ lastSpawnTime <= lastMergeTime
                        THEN chainCount + 1 ELSE 1]_vars

\* a merge inside the window with no drop since the merge before it was
\* scored one chain step higher
C13_Witness ==
  /\ last.op = "merge"
  /\ chainCount = 2
  /\ mergeChain = 2
  /\ lastMergeTime = now


\* the four input paths that can create a body
SpawnOps == {"mousePressed", "touchStarted", "mobileDrop", "keyPressed"}

SpawnStep == created' = created + 1 /\ last'.op \in SpawnOps

\* C14: every input path is debounced: a body dropped by the player is created
\* at least SPAWN_DEBOUNCE after the previous dropped body (lastSpawnTime is the
\* creation time of the previous one, 0 before the first)
C14_SpawnsDebounced ==
  [][SpawnStep => (lastSpawnTime = 0 \/ now - lastSpawnTime >= SPAWN_DEBOUNCE)]_vars

\* C15: while Running, a pointer tap anywhere on the board's horizontal extent,
\* made at least SPAWN_DEBOUNCE after the last body was created, gets through
\* both tests of attemptSpawnAtScreenX and so creates a body
C15_TapCreates ==
  \A x \in PointerXs :
    (/\ isRunning /\ ~gameOver
     /\ boardX <= x /\ x <= boardX + boardW
     /\ now - lastSpawnTime >= SPAWN_DEBOUNCE)
      => (~Debounced /\ ~OffBoard(x))

\* the body a spawn step created
Spawned == Find(bodies', last'.args[1])

\* C16: a dropped body has the tier nextPick held just before the drop, a tier
\* in 1..SPAWN_MAX_LEVEL, and the same step redraws nextPick in 1..SPAWN_MAX_LEVEL
C16_SpawnTier ==
  [][SpawnStep =>
       /\ Len(bodies') = Len(bodies) + 1
       /\ Spawned.level = nextPick
       /\ Spawned.level \in 1..SPAWN_MAX_LEVEL
       /\ nextPick' \in 1..SPAWN_MAX_LEVEL]_vars

C16_Witness ==
  /\ last.op \in SpawnOps /\ Has(bodies, last.args[1])
  /\ Find(bodies, last.args[1]).level = SPAWN_MAX_LEVEL
  /\ nextPick = 3

\* C17: a dropped body lies fully inside the board horizontally, whatever the
\* tap position, the tier and the window size
C17_SpawnInsideBoard ==
  [][SpawnStep =>
       /\ boardX <= Spawned.x - Spawned.radius
       /\ Spawned.x + Spawned.radius <= boardX + boardW]_vars

\* a tier-4 body dropped by a click near the left edge, moved in by the clamp
C17_Witness ==
  /\ last.op = "mousePressed" /\ Has(bodies, last.args[1])
  /\ LET b == Find(bodies, last.args[1])
     IN b.level = SPAWN_MAX_LEVEL /\ b.radius > 18 /\ b.x = boardX + 16 + b.radius

\* C18: every live body's radius is radiusForLevel of its tier on the current
\* board width, resizes included
C18_RadiusMatchesTier ==
  \A i \in 1..Len(bodies) : bodies[i].radius = radiusForLevel(bodies[i].level)

Abs(n) == IF n < 0 THEN -n ELSE n

\* C19: a resize keeps every body's position relative to the board: with the
\* board rectangle in force before the resize and the one after it,
\* (x - boardX) / boardW and (y - boardY) / boardW stay the same, to the pixel
\* the model's coordinates are rounded to
C19_RelativePositionKept ==
  [][window' # window =>
       /\ Len(bodies') = Len(bodies)
       /\ \A i \in 1..Len(bodies) :
            LET old == computeBoardRect
                new == computeBoardRect'
                b == bodies[i]
                c == bodies'[i]
            IN /\ c.id = b.id
               /\ Abs((c.x - new.boardX) * old.boardW - (b.x - old.boardX) * new.boardW)
                    < old.boardW
               /\ Abs((c.y - new.boardY) * old.boardW - (b.y - old.boardY) * new.boardW)
                    < old.boardW]_vars

\* a body on the phone-sized board right after a resize
C19_Witness ==
  /\ last.op = "windowResized" /\ Len(bodies) > 0
  /\ window.innerWidth = 500 /\ bodies[1].x < 250

\* a clear-small that took effect and removed at least one body
ClearStep ==
  /\ clearAvailable /\ ~clearAvailable' /\ last'.op = "handleClearSmall"
  /\ Len(bodies') < Len(bodies)

\* C20: handleClearSmall removes bodies only when the current round's score
\* has reached CLEAR_UNLOCK_SCORE, a new round after a restart included
C20_ClearGatedByScore ==
  [][ClearStep => score >= CLEAR_UNLOCK_SCORE]_vars

\* a clear-small that took effect
UseStep == uses' = uses + 1

\* C21: between two successful uses of clear-small, merges have awarded at
\* least CLEAR_RECHARGE_POINTS since the earlier one, whatever restarts, game
\* overs and other actions came between
C21_RechargeByPoints ==
  [][(UseStep /\ uses >= 1) => pointsSinceUse >= CLEAR_RECHARGE_POINTS]_vars

\* a second use
C21_Witness == uses = 2 /\ last.op = "handleClearSmall"

\* C22: the high score is never below the running score, every change of it
\* is written to the slot (the slot reads back as the new value), and it never
\* decreases, a restart included
C22_HighScoreKept ==
  /\ [](high >= score)
  /\ [][/\ high' >= high
        /\ high' # high => (stored' = String(high') /\ LoadHigh(stored') = high')]_vars

\* a new round begun after a merge took the high score to 16
C22_Witness ==
  /\ last.op = "startGame" /\ score = 0 /\ high = 16 /\ stored = <<"1", "6">>
  /\ created = 3

\* C23: score changes only by a merge, which adds a positive integer, and by
\* startGame, which resets it to 0; every other step leaves it as it is
C23_ScoreChanges ==
  [][/\ MergeStep => score' - score >= 1
     /\ score' # score =>
          \/ MergeStep
          \/ last'.op = "startGame" /\ score' = 0]_vars

\* the first merge of the round in progress has added its points
C23_Witness ==
  /\ last.op = "merge" /\ last.args[4] >= 1
  /\ score = SumBuildPoints(RoundLevels) + last.args[4]

\* C24: the ids of the live-body list are exactly the fruit bodies of the
\* world (the world less its three static bounds), and no id is listed twice
C24_ListMirrorsWorld ==
  /\ Ids(bodies) = world \ Statics
  /\ \A i, j \in 1..Len(bodies) : bodies[i].id = bodies[j].id => i = j

\* a merge took two bodies of the round's board out of the list and the world
\* and put the new one into both
C24_Witness ==
  /\ last.op = "merge" /\ Len(bodies) = Len(RoundBoard) - 1
  /\ last.args[3] \in world /\ Has(bodies, last.args[3])
  /\ last.args[1] \notin world /\ ~Has(bodies, last.args[1])

\* the number of fruit levels the README gives
SevenLevels == 7

\* C25: there are seven fruit levels: every body on the board has a tier in
\* 1..7, a merge never makes a higher one, and tier 7 is where merging stops
C25_SevenFruitLevels ==
  [][/\ \A i \in 1..Len(bodies') : bodies'[i].level \in 1..SevenLevels
     /\ MergeStep => Find(bodies', last'.args[3]).level <= SevenLevels
     /\ NextLevel(SevenLevels) = SevenLevels]_vars

\* the ids of the bodies of tier 1 and 2
SmallIds(bs) == {bs[i].id : i \in {j \in 1..Len(bs) : bs[j].level <= 2}}

QuietContact ==
  /\ Has(bodies, 4) /\ Has(bodies, 5)
  /\ LET a == Find(bodies, 4)
         b == Find(bodies, 5)
     IN /\ a.level = b.level /\ a.level < MAX_LEVEL
        /\ {4, 5} \in contacts
        /\ CloseAndSlow(a, b)

\* C27: two bodies of one tier that from some point on stay in contact, close
\* and slow, are eventually merged, the timers firing and the frames going on
\* (stated for a round that goes on, with no game over)
C27_ContactEventuallyMerges ==
  (<>[](QuietContact /\ isRunning /\ ~gameOver)) => <>({4, 5} \subseteq consumed)

\* C28: once the game is over no merge executes until startGame, so the score,
\* the high score and the bodies on the board stay as the game over left them
C28_FinalAtGameOver ==
  [][(gameOver /\ last'.op \notin {"startGame", "startFromLanding"})
       => /\ ~MergeStep
          /\ score' = score /\ high' = high
          /\ (last'.op \in {"merge", "stale", "rejected", "refused", "TypeError"}
                => Ids(bodies') = Ids(bodies))]_vars

\* C29: at the game-over detection of every draw() each body's top edge
\* (y - radius) is at or under topLineY + 2, the clamp having run earlier in
\* the same draw(), so the first test of the detection loop never fires.
\* The coordinates are the binary64 numbers of the code.
C29_ClampKeepsTopUnderLine ==
  [][DrawStep
       => /\ \A i \in 1..Len(bodies') : ~OverLine64(bodies'[i], topLineY64)
          /\ last'.args[1] # "overLine"]_vars

\* bodies of the last tier in a list
MaxTierCount(bs) == Cardinality({i \in 1..Len(bs) : bs[i].level = MAX_LEVEL})

\* C30: bodies of the last tier never merge: no merge check is ever pending
\* for a pair of that tier, an executed merge uses up two bodies below it,
\* and no merge lowers the number of last-tier bodies; a check that ends
\* without a merge leaves the list, the world and the score as they were.
C30_MaxTierNeverMerges ==
  [][/\ \A t \in timers' : t.lev < MAX_LEVEL
     /\ MergeStep
          => /\ Find(bodies, last'.args[1]).level < MAX_LEVEL
             /\ Find(bodies, last'.args[2]).level < MAX_LEVEL
             /\ MaxTierCount(bodies') >= MaxTierCount(bodies)
     /\ (~MergeStep /\ last'.op \in {"merge", "refused", "stale", "rejected", "TypeError"})
          => UNCHANGED <<bodies, world, score>>]_vars

\* a frame saw a body a merge created touch a last-tier body it can reach, both
\* of the last tier, and no check is pending for the two
C30_Witness ==
  /\ last.op = "draw"
  /\ \E pr \in contacts :
       /\ pr \cap Statics = {}
       /\ \E i \in pr : i > 3 + Len(RoundBoard)
       /\ \A i, j \in pr :
            /\ Has(bodies, i)
            /\ Find(bodies, i).level = MAX_LEVEL
            /\ WithinMergeDist(Find(bodies, i), Find(bodies, j))
       /\ \A t \in timers : {t.idA, t.idB} # pr

====
